---- MODULE Spec2Model ----
(***************************************************************************)
(* CodeFix: the similarity-matching engine (ai_engine.py, BugSolutionAI)   *)
(* and the HTTP API in front of it (main.py).                              *)
(*                                                                         *)
(* The pretrained sentence encoder is opaque: it is fixed, when the model   *)
(* is loaded, as a function from texts to vectors (or to a failure).       *)
(* Similarities are kept in tenths (-10..10 for -1.0..1.0), confidences in *)
(* units of 10^-9.  Python lists are 0-based, the sequences here 1-based.  *)
(***************************************************************************)
EXTENDS Integers, Sequences, FiniteSets, TLC

\* ---------------------------------------------------------------- bounds
MaxExamples == 2
MaxRequests == 2
MaxCalls == 2
\* Requests served in a long run of /health and /metrics alone.
MaxLongRun == 160
\* Requests that can be in flight together.
MaxInflight == 2

\* ---------------------------------------------------------------- inputs
\* The texts: the descriptions of the three built-in examples, which are
\* also the descriptions a bug report can carry.
TextList == <<"state mutation", "effect loop", "event handler">>
Texts == {TextList[i] : i \in 1..Len(TextList)}
\* A title print() can write, and one it cannot (a lone surrogate).
Titles == {"printable", "unprintable"}
EncodeError == <<>>
\* Embeddings of equal norm; their cosines are 1, 0.5 and 0.
Vectors == {<<1, 1, 0>>, <<1, 0, 1>>, <<1, -1, 0>>}
One == 1000000000
Threshold == 500000000
NoneValue == [kind |-> "None"]
RequiredKeys == {"title", "solution", "code_example", "source"}
DroppableKeys == RequiredKeys \cup {"description", "tags"}

\* horizon: the number of requests a run serves.  built: what the
\* constructor did: the steps it ran, its calls of encode over the example
\* texts and its writes of data/embeddings.npy.
VARIABLES phase, examples, model, model_loaded, example_embeddings,
          request_count, error_count, analyze_bug_count,
          received, response, call, seen, horizon, built, inflight, ledger

engine == <<examples, model, model_loaded, example_embeddings>>
counters == <<request_count, error_count, analyze_bug_count>>
vars == <<phase, examples, model, model_loaded, example_embeddings,
          request_count, error_count, analyze_bug_count,
          received, response, call, seen, horizon, built, inflight, ledger>>

\* -------------------------------------------------------- knowledge base
Example(i) ==
    [title |-> <<"title", i>>,
     description |-> TextList[((i - 1) % Len(TextList)) + 1],
     solution |-> <<"solution", i>>,
     code_example |-> <<"code_example", i>>,
     source |-> <<"source", i>>,
     tags |-> <<"react", "tag", i>>,
     keywords |-> <<"keyword", i>>]

Without(example, key) == [k \in (DOMAIN example) \ {key} |-> example[k]]

_get_default_examples == <<Example(1), Example(2), Example(3)>>

\* What json.load can deliver from data/examples.json: a list of up to
\* MaxExamples entries, at most one of which lacks a key.
FileExamples ==
    UNION {{[i \in 1..n |-> Example(i)]} \cup
           {[i \in 1..n |-> IF i = bad THEN Without(Example(i), k) ELSE Example(i)] :
                bad \in 1..n, k \in DroppableKeys} : n \in 0..MaxExamples}

\* The encoders the pretrained model can turn out to be: each text goes to
\* a vector or makes encode() raise; the first text is the reference
\* direction.
Encoders ==
    {e \in [Texts -> Vectors \cup {EncodeError}] : e[TextList[1]] = <<1, 1, 0>>}

\* data/examples.json when it exists, the built-in examples otherwise.
_load_examples == FileExamples \cup {_get_default_examples}

\* SentenceTransformer(...) succeeds, or raises and leaves no model.
_load_model ==
    {[model |-> e, model_loaded |-> TRUE] : e \in Encoders}
        \cup {[model |-> NoneValue, model_loaded |-> FALSE]}

\* ------------------------------------------------------------ arithmetic
Dot(u, v) == u[1] * v[1] + u[2] * v[2] + u[3] * v[3]

ISqrt(n) == CHOOSE r \in 0..n : r * r <= n /\ (r + 1) * (r + 1) > n

\* sklearn cosine_similarity of two vectors, in tenths; a zero vector is
\* normalised by 1 and so is at similarity 0 from everything.
cosine_similarity(u, v) ==
    LET nn == ISqrt(Dot(u, u) * Dot(v, v))
    IN  IF nn = 0 THEN 0 ELSE (10 * Dot(u, v)) \div nn

\* 1 / (1 + exp(-10 * (s - 0.5))) at s = -1.0, -0.9, ..., 1.0, in 10^-9.
SigmoidTable ==
    <<306, 832, 2260, 6144, 16701, 45398, 123395, 335350, 911051, 2472623,
      6692851, 17986210, 47425873, 119202922, 268941421, 500000000,
      731058579, 880797078, 952574127, 982013790, 993307149>>

Min(a, b) == IF b < a THEN b ELSE a
Max(a, b) == IF b > a THEN b ELSE a

\* The quotients numerator / denominator for which the binary64 value of
\* numerator / denominator * 100 lies just below, or just above, a decimal
\* that sits exactly half way between two hundredths (denominators to 169).
Binary64Below == {<<23, 160>>, <<51, 160>>, <<87, 160>>}
Binary64Above == {<<49, 160>>, <<93, 160>>}

\* round(numerator / denominator * 100, 2), in hundredths of a percent:
\* round() goes to the nearest hundredth of the binary64 value and to the
\* even one on an exact tie.
round_percent(numerator, denominator) ==
    LET scaled == 10000 * numerator
        q == scaled \div denominator
        rem == scaled % denominator
    IN  IF 2 * rem < denominator THEN q
        ELSE IF 2 * rem > denominator THEN q + 1
        ELSE IF <<numerator, denominator>> \in Binary64Below THEN q
        ELSE IF <<numerator, denominator>> \in Binary64Above THEN q + 1
        ELSE IF q % 2 = 0 THEN q ELSE q + 1

\* Mutant: the raw similarity handed back, neither squashed nor clamped.
_calculate_confidence_raw(similarity_score, bug_report) ==
    similarity_score * (One \div 10)

\* Mutant: the curve centred at 0.6 instead of 0.5.
_calculate_confidence_shifted(similarity_score, bug_report) ==
    LET adjusted_confidence ==
            IF similarity_score = -10 THEN 112
            ELSE SigmoidTable[similarity_score + 10]
    IN  Min(Max(adjusted_confidence, 0), One)

\* Mutant: "other factors": a report that carries a code snippet is
\* trusted a little more.
_calculate_confidence_snippet(similarity_score, bug_report) ==
    LET adjusted_confidence ==
            SigmoidTable[similarity_score + 11]
              + (IF bug_report.code_snippet # "None" THEN 1000000 ELSE 0)
    IN  Min(Max(adjusted_confidence, 0), One)

\* The bug report is a parameter the code never reads.
_calculate_confidence(similarity_score, bug_report) ==
    LET adjusted_confidence == SigmoidTable[similarity_score + 11]
    IN  Min(Max(adjusted_confidence, 0), One)

\* Mutant: the last index holding the maximum.
argmax_last(scores) ==
    CHOOSE i \in 1..Len(scores) :
        /\ \A j \in 1..Len(scores) : scores[j] <= scores[i]
        /\ \A j \in (i + 1)..Len(scores) : scores[j] < scores[i]

\* np.argmax: the first index holding the maximum.
argmax(scores) ==
    CHOOSE i \in 1..Len(scores) :
        /\ \A j \in 1..Len(scores) : scores[j] <= scores[i]
        /\ \A j \in 1..(i - 1) : scores[j] < scores[i]

\* Mutant: a confidence of exactly 0.5 counts as a match.
AboveThreshold_inclusive(confidence) == confidence >= Threshold

\* if confidence > 0.5
AboveThreshold(confidence) == confidence > Threshold

\* ---------------------------------------------------------------- engine
\* Mutant: the embeddings stored in reverse order of the examples.
_prepare_embeddings_reversed(saveOk) ==
    IF ~model_loaded \/ examples = <<>>
    THEN example_embeddings
    ELSE IF \E i \in 1..Len(examples) : "description" \notin DOMAIN examples[i]
    THEN NoneValue
    ELSE IF \E i \in 1..Len(examples) : model[examples[i].description] = EncodeError
    THEN NoneValue
    ELSE IF ~saveOk
    THEN NoneValue
    ELSE [kind |-> "ndarray",
          rows |-> [i \in 1..Len(examples) |->
                       model[examples[Len(examples) + 1 - i].description]]]

\* Mutant: the guard tests the model alone, not the example list.
_prepare_embeddings_unguarded(saveOk) ==
    IF ~model_loaded
    THEN example_embeddings
    ELSE IF \E i \in 1..Len(examples) : "description" \notin DOMAIN examples[i]
    THEN NoneValue
    ELSE IF \E i \in 1..Len(examples) : model[examples[i].description] = EncodeError
    THEN NoneValue
    ELSE IF ~saveOk
    THEN NoneValue
    ELSE [kind |-> "ndarray",
          rows |-> [i \in 1..Len(examples) |-> model[examples[i].description]]]

\* The value _prepare_embeddings leaves in example_embeddings; saveOk: np.save
\* wrote data/embeddings.npy.
_prepare_embeddings(saveOk) ==
    IF ~model_loaded \/ examples = <<>>
    THEN example_embeddings
    ELSE IF \E i \in 1..Len(examples) : "description" \notin DOMAIN examples[i]
    THEN NoneValue
    ELSE IF \E i \in 1..Len(examples) : model[examples[i].description] = EncodeError
    THEN NoneValue
    ELSE IF ~saveOk
    THEN NoneValue
    ELSE [kind |-> "ndarray",
          rows |-> [i \in 1..Len(examples) |-> model[examples[i].description]]]

\* What one run of _prepare_embeddings does on the way: the calls of
\* self.model.encode over the example texts and the completed writes of
\* data/embeddings.npy.  An entry without a description raises KeyError
\* while the texts are collected, before encode is reached.
_prepare_embeddings_calls(saveOk) ==
    IF ~model_loaded \/ examples = <<>>
    THEN [encode_calls |-> 0, cache_writes |-> 0]
    ELSE IF \E i \in 1..Len(examples) : "description" \notin DOMAIN examples[i]
    THEN [encode_calls |-> 0, cache_writes |-> 0]
    ELSE IF \E i \in 1..Len(examples) : model[examples[i].description] = EncodeError
    THEN [encode_calls |-> 1, cache_writes |-> 0]
    ELSE IF ~saveOk
    THEN [encode_calls |-> 1, cache_writes |-> 0]
    ELSE [encode_calls |-> 1, cache_writes |-> 1]

_format_solution(example, confidence, similarity_score) ==
    IF RequiredKeys \subseteq DOMAIN example
    THEN [kind |-> "BugSolution",
          title |-> example.title,
          solution |-> example.solution,
          code_example |-> example.code_example,
          source |-> example.source,
          confidence |-> confidence,
          tags |-> IF "tags" \in DOMAIN example THEN example.tags ELSE <<>>,
          similarity_score |-> similarity_score]
    ELSE [kind |-> "raised", exc |-> "KeyError"]

\* Mutant: an except clause that expects only the encoder to fail.
Caught_encoder_only(exc) ==
    IF exc = "EncodeError" THEN NoneValue ELSE [kind |-> "raised", exc |-> exc]

\* The except clause of find_solution: every Exception becomes None.
Caught(exc) == NoneValue

\* The record of one find_solution call: what it computed and returned.
find_solution(bug_report) ==
    LET base == [method |-> "find_solution",
                 description |-> bug_report.description,
                 ready |-> FALSE, threw |-> "none",
                 best_match_idx |-> 0, best_similarity |-> 0,
                 confidence |-> -1, result |-> NoneValue]
    IN
    IF ~model_loaded \/ example_embeddings = NoneValue
    THEN base
    ELSE IF model[bug_report.description] = EncodeError
    THEN [base EXCEPT !.ready = TRUE, !.threw = "encode",
                      !.result = Caught("EncodeError")]
    ELSE
      LET bug_embedding == model[bug_report.description]
          rows == example_embeddings.rows
          similarity_scores ==
              [i \in 1..Len(rows) |-> cosine_similarity(bug_embedding, rows[i])]
          best_match_idx == argmax(similarity_scores)
          best_similarity == similarity_scores[best_match_idx]
          confidence == _calculate_confidence(best_similarity, bug_report)
          found == [base EXCEPT !.ready = TRUE,
                                !.best_match_idx = best_match_idx,
                                !.best_similarity = best_similarity,
                                !.confidence = confidence]
      IN  IF AboveThreshold(confidence)
          THEN LET formatted == _format_solution(examples[best_match_idx],
                                                 confidence, best_similarity)
               IN  IF formatted.kind = "BugSolution"
                   THEN [found EXCEPT !.result = formatted]
                   ELSE [found EXCEPT !.threw = "format",
                                      !.result = Caught(formatted.exc)]
          ELSE found

\* seen: one earlier find_solution call, picked at any position among the
\* calls made since the embeddings were last prepared: its description, its
\* result, and how many calls with that description there have been since
\* (counted up to MaxCalls).
Unseen == [calls |-> 0, description |-> "", result |-> NoneValue]

Remembered(c) ==
    IF seen.calls = 0
    THEN {seen, [calls |-> 1, description |-> c.description, result |-> c.result]}
    ELSE IF seen.description = c.description /\ seen.calls < MaxCalls
    THEN {[seen EXCEPT !.calls = @ + 1]}
    ELSE {seen}

NoCall == [method |-> "none"]

\* -------------------------------------------------------------- requests
\* inflight: the requests the server holds, each with the handler it is
\* for, the position of that handler's coroutine and the value it last
\* loaded from a counter.  ledger: the handler invocations made so far, how
\* many of them entered an except clause, and whether two requests were
\* ever in the server together.
Requests == 1..MaxInflight
Handlers == {"health_check", "get_metrics", "analyze_bug"}
Idle == [handler |-> "none", pc |-> "idle", tmp |-> 0, status |-> 0]
NoInvocations ==
    [health_check |-> 0, get_metrics |-> 0, analyze_bug |-> 0,
     excepted |-> 0, overlapped |-> FALSE]

Running(i) == inflight[i].pc \notin {"idle", "pending", "done"}

\* Mutant: the handlers declared with def, which FastAPI runs on a thread
\* pool: any of them can take the next step.
CanRun_threads(i) == TRUE

\* The handlers are coroutines (async def) without a single await: the
\* event loop runs one from its first statement to its return or raise
\* before it resumes anything else.
CanRun(i) == \A j \in Requests \ {i} : ~Running(j)

\* ----------------------------------------------------------- construction
Init ==
    /\ phase = "__init__"
    /\ examples = <<>>
    /\ model = NoneValue
    /\ model_loaded = FALSE
    /\ example_embeddings = NoneValue
    /\ request_count = 0
    /\ error_count = 0
    /\ analyze_bug_count = 0
    /\ received = 0
    /\ response = [endpoint |-> "none", status |-> 0]
    /\ call = NoCall
    /\ seen = Unseen
    /\ horizon = MaxRequests
    /\ built = [steps |-> <<>>, encode_calls |-> 0, cache_writes |-> 0]
    /\ inflight = [i \in Requests |-> Idle]
    /\ ledger = NoInvocations

Init_load_examples ==
    /\ phase = "__init__"
    /\ UNCHANGED <<horizon, inflight, ledger>>
    /\ built' = [built EXCEPT !.steps = Append(@, "_load_examples")]
    /\ examples' \in _load_examples
    /\ phase' = "_load_model"
    /\ UNCHANGED <<model, model_loaded, example_embeddings, counters,
                   received, response, call, seen>>

Init_load_model ==
    /\ phase = "_load_model"
    /\ UNCHANGED <<horizon, inflight, ledger>>
    /\ built' = [built EXCEPT !.steps = Append(@, "_load_model")]
    /\ \E loaded \in _load_model :
          /\ model' = loaded.model
          /\ model_loaded' = loaded.model_loaded
    /\ phase' = "_prepare_embeddings"
    /\ UNCHANGED <<examples, example_embeddings, counters,
                   received, response, call, seen>>

Init_prepare_embeddings ==
    /\ phase = "_prepare_embeddings"
    /\ UNCHANGED <<horizon, inflight, ledger>>
    /\ \E saveOk \in BOOLEAN :
          /\ example_embeddings' = _prepare_embeddings(saveOk)
          /\ built' = [steps |-> Append(built.steps, "_prepare_embeddings"),
                       encode_calls |->
                           built.encode_calls
                             + _prepare_embeddings_calls(saveOk).encode_calls,
                       cache_writes |->
                           built.cache_writes
                             + _prepare_embeddings_calls(saveOk).cache_writes]
    /\ phase' = "ready"
    /\ UNCHANGED <<examples, model, model_loaded, counters,
                   received, response, call, seen>>

\* ---------------------------------------------------------- engine methods
\* The fields of a BugReport the handler or the engine is handed; the
\* optional ones are "None" when absent.
BugReports ==
    [title : Titles, description : Texts,
     code_snippet : {"None", "const result = user && user.token;"},
     language : {"None", "JavaScript"}]

\* Mutant: a call whose try block raised drops the cached embeddings, as
\* the except clause of _prepare_embeddings does.
FindSolutionCall_invalidating ==
    /\ phase = "ready"
    /\ UNCHANGED <<horizon, built, inflight, ledger>>
    /\ \E bug_report \in BugReports :
          /\ call' = find_solution(bug_report)
          /\ seen' \in Remembered(find_solution(bug_report))
          /\ example_embeddings' =
                IF find_solution(bug_report).threw # "none"
                THEN NoneValue ELSE example_embeddings
    /\ UNCHANGED <<phase, examples, model, model_loaded, counters,
                   received, response>>

FindSolutionCall ==
    /\ phase = "ready"
    /\ UNCHANGED <<horizon, built, inflight, ledger>>
    /\ \E bug_report \in BugReports :
          /\ call' = find_solution(bug_report)
          /\ seen' \in Remembered(find_solution(bug_report))
    /\ UNCHANGED <<phase, engine, counters, received, response>>

\* Mutant: regenerating the embeddings loads the examples again.
update_embeddings_reloading ==
    /\ phase = "ready"
    /\ UNCHANGED <<horizon, built, inflight, ledger>>
    /\ examples' \in _load_examples
    /\ \E saveOk \in BOOLEAN :
          example_embeddings' =
              IF model_loaded THEN _prepare_embeddings(saveOk)
                              ELSE example_embeddings
    /\ call' = [method |-> "update_embeddings"]
    /\ seen' = Unseen
    /\ UNCHANGED <<phase, model, model_loaded, counters, received, response>>

update_embeddings ==
    /\ phase = "ready"
    /\ UNCHANGED <<horizon, built, inflight, ledger>>
    /\ \E saveOk \in BOOLEAN :
          example_embeddings' =
              IF model_loaded THEN _prepare_embeddings(saveOk)
                              ELSE example_embeddings
    /\ call' = [method |-> "update_embeddings"]
    /\ seen' = Unseen
    /\ UNCHANGED <<phase, examples, model, model_loaded, counters,
                   received, response>>

get_examples ==
    /\ phase = "ready"
    /\ UNCHANGED <<horizon, built, inflight, ledger>>
    /\ call' = [method |-> "get_examples", result |-> examples]
    /\ UNCHANGED <<phase, engine, counters, received, response, seen>>

get_model_status ==
    /\ phase = "ready"
    /\ UNCHANGED <<horizon, built, inflight, ledger>>
    /\ call' = [method |-> "get_model_status",
                result |-> [model_loaded |-> model_loaded,
                            examples_count |-> Len(examples),
                            embeddings_ready |-> example_embeddings # NoneValue,
                            model_name |-> IF model # NoneValue
                                           THEN "all-MiniLM-L6-v2"
                                           ELSE "None"]]
    /\ UNCHANGED <<phase, engine, counters, received, response, seen>>

\* ------------------------------------------------------------ API handlers
\* The two except clauses of analyze_bug, tried in order: the outcome of an
\* exception raised inside the try block.  HTTPException derives from
\* Exception, so the second clause catches it as well.
IsException(exc) == exc \in {"HTTPException", "UnicodeEncodeError", "ValidationError"}

\* Mutant: the request is counted only when the check succeeds.
health_check_uncounted ==
    /\ phase = "ready"
    /\ UNCHANGED <<horizon, built, inflight, ledger>>
    /\ received < horizon
    /\ received' = received + 1
    /\ \/ /\ request_count' = request_count + 1
          /\ response' = [endpoint |-> "/health", status |-> 200,
                          total_requests |-> request_count',
                          error_count |-> error_count,
                          analyze_requests |-> analyze_bug_count]
          /\ error_count' = error_count
       \/ /\ request_count' = request_count
          /\ error_count' = error_count + 1
          /\ response' = [endpoint |-> "/health", status |-> 500]
    /\ UNCHANGED <<phase, engine, analyze_bug_count, call, seen>>

\* Mutant: the generic clause answers 500 without counting the error.
analyze_bug_except_uncounted(exc) ==
    IF exc = "ValidationError"
    THEN [errors |-> 1, status |-> 422]
    ELSE [errors |-> 0, status |-> 500]

analyze_bug_except(exc) ==
    IF exc = "ValidationError"
    THEN [errors |-> 1, status |-> 422]
    ELSE IF IsException(exc)
    THEN [errors |-> 1, status |-> 500]
    ELSE [errors |-> 0, status |-> 500]

\* The body of analyze_bug's try block: the exception it raises, or "none".
analyze_bug_try(bug_report, solution) ==
    IF bug_report.title = "unprintable"
    THEN "UnicodeEncodeError"
    ELSE IF solution.kind # "BugSolution"
    THEN "HTTPException"
    ELSE "none"

\* In a response to POST /analyze-bug, solution is what find_solution
\* returned to the handler and raised the exception its try block raised.
NotCalled == [kind |-> "NotCalled"]

root ==
    /\ phase = "ready"
    /\ UNCHANGED <<horizon, built, inflight, ledger>>
    /\ received < MaxRequests
    /\ received' = received + 1
    /\ response' = [endpoint |-> "/", status |-> 200]
    /\ UNCHANGED <<phase, engine, counters, call, seen>>

health_check ==
    /\ phase = "ready"
    /\ UNCHANGED <<horizon, built, inflight, ledger>>
    /\ received < horizon
    /\ received' = received + 1
    /\ request_count' = request_count + 1
    /\ \/ /\ response' = [endpoint |-> "/health", status |-> 200,
                          total_requests |-> request_count',
                          error_count |-> error_count,
                          analyze_requests |-> analyze_bug_count]
          /\ error_count' = error_count
       \/ /\ error_count' = error_count + 1
          /\ response' = [endpoint |-> "/health", status |-> 500]
    /\ UNCHANGED <<phase, engine, analyze_bug_count, call, seen>>

get_metrics ==
    /\ phase = "ready"
    /\ UNCHANGED <<horizon, built, inflight, ledger>>
    /\ received < horizon
    /\ received' = received + 1
    /\ request_count' = request_count + 1
    /\ \/ response' = [endpoint |-> "/metrics", status |-> 200,
                       total |-> request_count',
                       analyze_bug |-> analyze_bug_count,
                       errors |-> error_count,
                       success_rate |->
                           round_percent(request_count' - error_count,
                                         Max(request_count', 1)),
                       error_rate_percent |->
                           round_percent(error_count, Max(request_count', 1))]
       \/ response' = [endpoint |-> "/metrics", status |-> 500]
    /\ UNCHANGED <<phase, engine, error_count, analyze_bug_count, call, seen>>

analyze_bug ==
    /\ phase = "ready"
    /\ UNCHANGED <<horizon, built, inflight, ledger>>
    /\ received < MaxRequests
    /\ received' = received + 1
    /\ request_count' = request_count + 1
    /\ analyze_bug_count' = analyze_bug_count + 1
    /\ \E bug_report \in BugReports :
          IF bug_report.title = "unprintable"
          THEN LET out == analyze_bug_except(analyze_bug_try(bug_report, NoneValue))
               IN  /\ error_count' = error_count + out.errors
                   /\ response' = [endpoint |-> "/analyze-bug",
                                   status |-> out.status,
                                   raised |-> "UnicodeEncodeError",
                                   solution |-> NotCalled]
                   /\ UNCHANGED <<call, seen>>
          ELSE LET c == find_solution(bug_report)
                   exc == analyze_bug_try(bug_report, c.result)
                   out == analyze_bug_except(exc)
               IN  /\ call' = c
                   /\ seen' \in Remembered(c)
                   /\ IF exc = "none"
                      THEN /\ error_count' = error_count
                           /\ response' = [endpoint |-> "/analyze-bug",
                                           status |-> 200,
                                           raised |-> "none",
                                           solution |-> c.result]
                      ELSE /\ error_count' = error_count + out.errors
                           /\ response' = [endpoint |-> "/analyze-bug",
                                           status |-> out.status,
                                           raised |-> exc,
                                           solution |-> c.result]
    /\ UNCHANGED <<phase, engine>>

\* A request FastAPI rejects before the handler runs (the body is no
\* BugReport): 422, and analyze_bug is never entered.
analyze_bug_rejected ==
    /\ phase = "ready"
    /\ UNCHANGED <<horizon, built, inflight, ledger>>
    /\ received < MaxRequests
    /\ received' = received + 1
    /\ response' = [endpoint |-> "/analyze-bug", status |-> 422,
                    raised |-> "none", solution |-> NotCalled]
    /\ UNCHANGED <<phase, engine, counters, call, seen>>

\* ------------------------------------------- handlers, statement by statement
\* A request reaches the server, whatever the server is doing.
Arrive(i) ==
    /\ phase = "ready"
    /\ inflight[i].pc = "idle"
    /\ \E handler \in Handlers :
          inflight' = [inflight EXCEPT ![i] = [Idle EXCEPT !.handler = handler,
                                                          !.pc = "pending"]]
    /\ ledger' = [ledger EXCEPT !.overlapped =
                      @ \/ \E j \in Requests \ {i} :
                               inflight[j].pc \notin {"idle", "done"}]
    /\ UNCHANGED <<phase, engine, counters, received, response, call, seen,
                   horizon, built>>

\* The event loop calls the handler.
Invoke(i) ==
    /\ inflight[i].pc = "pending"
    /\ CanRun(i)
    /\ inflight' = [inflight EXCEPT ![i].pc = "load request_count"]
    /\ ledger' = [ledger EXCEPT ![inflight[i].handler] = @ + 1]
    /\ UNCHANGED <<phase, engine, counters, received, response, call, seen,
                   horizon, built>>

\* request_count += 1, the load and the store.
LoadRequestCount(i) ==
    /\ inflight[i].pc = "load request_count"
    /\ CanRun(i)
    /\ inflight' = [inflight EXCEPT ![i].tmp = request_count,
                                    ![i].pc = "store request_count"]
    /\ UNCHANGED <<phase, engine, counters, received, response, call, seen,
                   horizon, built, ledger>>

StoreRequestCount(i) ==
    /\ inflight[i].pc = "store request_count"
    /\ CanRun(i)
    /\ request_count' = inflight[i].tmp + 1
    /\ inflight' = [inflight EXCEPT
                       ![i].tmp = 0,
                       ![i].pc = IF inflight[i].handler = "analyze_bug"
                                 THEN "load analyze_bug_count"
                                 ELSE "try"]
    /\ UNCHANGED <<phase, engine, error_count, analyze_bug_count, received,
                   response, call, seen, horizon, built, ledger>>

\* analyze_bug_count += 1, the load and the store.
LoadAnalyzeBugCount(i) ==
    /\ inflight[i].pc = "load analyze_bug_count"
    /\ CanRun(i)
    /\ inflight' = [inflight EXCEPT ![i].tmp = analyze_bug_count,
                                    ![i].pc = "store analyze_bug_count"]
    /\ UNCHANGED <<phase, engine, counters, received, response, call, seen,
                   horizon, built, ledger>>

StoreAnalyzeBugCount(i) ==
    /\ inflight[i].pc = "store analyze_bug_count"
    /\ CanRun(i)
    /\ analyze_bug_count' = inflight[i].tmp + 1
    /\ inflight' = [inflight EXCEPT ![i].tmp = 0, ![i].pc = "try"]
    /\ UNCHANGED <<phase, engine, request_count, error_count, received,
                   response, call, seen, horizon, built, ledger>>

\* What the rest of the handler comes to: the status it answers and
\* whether an except clause was entered on the way.  get_metrics has no
\* try statement: whatever it raises leaves it uncaught.
Outcomes(handler) ==
    IF handler = "health_check"
    THEN {[status |-> 200, excepted |-> FALSE], [status |-> 500, excepted |-> TRUE]}
    ELSE IF handler = "get_metrics"
    THEN {[status |-> 200, excepted |-> FALSE], [status |-> 500, excepted |-> FALSE]}
    ELSE {LET solution == IF bug_report.title = "unprintable"
                          THEN NoneValue
                          ELSE find_solution(bug_report).result
              exc == analyze_bug_try(bug_report, solution)
          IN  IF exc = "none"
              THEN [status |-> 200, excepted |-> FALSE]
              ELSE [status |-> analyze_bug_except(exc).status,
                    excepted |-> analyze_bug_except(exc).errors = 1] :
          bug_report \in BugReports}

\* The body of the handler up to its return or to the except clause.
Try(i) ==
    /\ inflight[i].pc = "try"
    /\ CanRun(i)
    /\ \E out \in Outcomes(inflight[i].handler) :
          /\ inflight' = [inflight EXCEPT
                             ![i].status = out.status,
                             ![i].pc = IF out.excepted THEN "load error_count"
                                                       ELSE "done"]
          /\ ledger' = [ledger EXCEPT !.excepted =
                            IF out.excepted THEN @ + 1 ELSE @]
    /\ UNCHANGED <<phase, engine, counters, received, response, call, seen,
                   horizon, built>>

\* error_count += 1 in the except clause, the load and the store; the
\* HTTPException raised after it ends the handler.
LoadErrorCount(i) ==
    /\ inflight[i].pc = "load error_count"
    /\ CanRun(i)
    /\ inflight' = [inflight EXCEPT ![i].tmp = error_count,
                                    ![i].pc = "store error_count"]
    /\ UNCHANGED <<phase, engine, counters, received, response, call, seen,
                   horizon, built, ledger>>

StoreErrorCount(i) ==
    /\ inflight[i].pc = "store error_count"
    /\ CanRun(i)
    /\ error_count' = inflight[i].tmp + 1
    /\ inflight' = [inflight EXCEPT ![i].tmp = 0, ![i].pc = "done"]
    /\ UNCHANGED <<phase, engine, request_count, analyze_bug_count, received,
                   response, call, seen, horizon, built, ledger>>

Construct == Init_load_examples \/ Init_load_model \/ Init_prepare_embeddings

EngineNext ==
    \/ Construct
    \/ FindSolutionCall
    \/ update_embeddings
    \/ get_examples
    \/ get_model_status

ApiNext ==
    \/ Construct
    \/ root
    \/ health_check
    \/ get_metrics
    \/ analyze_bug
    \/ analyze_bug_rejected

Next == EngineNext \/ ApiNext

\* The application, the engine driven through its methods, and the engine
\* behind the API as main.py runs it.
Spec == Init /\ [][Next]_vars
EngineSpec == Init /\ [][EngineNext]_vars
ApiSpec == Init /\ [][ApiNext]_vars

\* A long run of the API: the engine stands constructed on the built-in
\* examples without a model (sentence-transformers failed to load), the
\* first MaxRequests requests are of any kind and the monitoring endpoints
\* are polled on to MaxLongRun requests.
LongInit ==
    /\ phase = "ready"
    /\ examples = _get_default_examples
    /\ model = NoneValue
    /\ model_loaded = FALSE
    /\ example_embeddings = NoneValue
    /\ request_count = 0
    /\ error_count = 0
    /\ analyze_bug_count = 0
    /\ received = 0
    /\ response = [endpoint |-> "none", status |-> 0]
    /\ call = NoCall
    /\ seen = Unseen
    /\ horizon = MaxLongRun
    /\ built = [steps |-> <<"_load_examples", "_load_model",
                            "_prepare_embeddings">>,
                encode_calls |-> 0, cache_writes |-> 0]
    /\ inflight = [i \in Requests |-> Idle]
    /\ ledger = NoInvocations

LongNext ==
    \/ root
    \/ health_check
    \/ get_metrics
    \/ analyze_bug
    \/ analyze_bug_rejected

LongRunSpec == LongInit /\ [][LongNext]_vars

\* The server under concurrent requests: the engine stands constructed on
\* the built-in examples, with whatever model loading gave, and the
\* handlers run statement by statement.
ConcurrentInit ==
    /\ phase = "ready"
    /\ examples = _get_default_examples
    /\ \E loaded \in _load_model :
          /\ model = loaded.model
          /\ model_loaded = loaded.model_loaded
    /\ example_embeddings = IF model_loaded THEN _prepare_embeddings(TRUE)
                                            ELSE NoneValue
    /\ request_count = 0
    /\ error_count = 0
    /\ analyze_bug_count = 0
    /\ received = 0
    /\ response = [endpoint |-> "none", status |-> 0]
    /\ call = NoCall
    /\ seen = Unseen
    /\ horizon = MaxRequests
    /\ built = [steps |-> <<"_load_examples", "_load_model",
                            "_prepare_embeddings">>,
                encode_calls |-> _prepare_embeddings_calls(TRUE).encode_calls,
                cache_writes |-> _prepare_embeddings_calls(TRUE).cache_writes]
    /\ inflight = [i \in Requests |-> Idle]
    /\ ledger = NoInvocations

ConcurrentNext ==
    \E i \in Requests :
        \/ Arrive(i)
        \/ Invoke(i)
        \/ LoadRequestCount(i)
        \/ StoreRequestCount(i)
        \/ LoadAnalyzeBugCount(i)
        \/ StoreAnalyzeBugCount(i)
        \/ Try(i)
        \/ LoadErrorCount(i)
        \/ StoreErrorCount(i)

ConcurrentSpec == ConcurrentInit /\ [][ConcurrentNext]_vars

\* ------------------------------------------------------------------ claims
IsFindSolution == call.method = "find_solution"

\* The similarity of the query of the last call to example i, from the
\* example's description itself.
SimilarityTo(i) ==
    cosine_similarity(model[call.description], model[examples[i].description])

\* What the matched example i is to come back as.
SolutionOf(i) ==
    [kind |-> "BugSolution",
     title |-> examples[i].title,
     solution |-> examples[i].solution,
     code_example |-> examples[i].code_example,
     source |-> examples[i].source,
     confidence |-> call.confidence,
     tags |-> IF "tags" \in DOMAIN examples[i] THEN examples[i].tags ELSE <<>>,
     similarity_score |-> call.best_similarity]

Computed == IsFindSolution /\ call.ready /\ call.best_match_idx # 0

\* C1 as stated: with the model loaded and the embeddings ready,
\* find_solution returns the best match's solution if its confidence is
\* above 0.5, and None otherwise.
C1_Original ==
    Computed =>
        IF call.confidence > Threshold
        THEN /\ call.result.kind = "BugSolution"
             /\ call.result.solution = examples[call.best_match_idx].solution
        ELSE call.result = NoneValue

\* C1 (amended): with the model loaded and the embeddings ready,
\* find_solution returns the best match's solution if its confidence is
\* strictly above 0.5 and the example has its title, solution, code_example
\* and source; it returns None if the confidence is 0.5 or less, and if the
\* example lacks one of those keys.
C1_Threshold ==
    Computed =>
        /\ (call.confidence > Threshold
              /\ RequiredKeys \subseteq DOMAIN examples[call.best_match_idx])
             => call.result = SolutionOf(call.best_match_idx)
        /\ (call.confidence > Threshold
              /\ ~(RequiredKeys \subseteq DOMAIN examples[call.best_match_idx]))
             => call.result = NoneValue
        /\ call.confidence <= Threshold => call.result = NoneValue

C1_Witness ==
    /\ Computed
    /\ call.confidence = Threshold
    /\ call.result = NoneValue

\* C2: a returned BugSolution carries the fields of the example of maximal
\* similarity to the query, the lowest index on ties, that example's tags
\* (none: the empty list), and the maximal similarity as its score.
C2_BestMatch ==
    (IsFindSolution /\ call.result.kind = "BugSolution") =>
        \E i \in 1..Len(examples) :
            /\ \A j \in 1..Len(examples) : SimilarityTo(j) <= SimilarityTo(i)
            /\ \A j \in 1..(i - 1) : SimilarityTo(j) < SimilarityTo(i)
            /\ call.result.title = examples[i].title
            /\ call.result.solution = examples[i].solution
            /\ call.result.code_example = examples[i].code_example
            /\ call.result.source = examples[i].source
            /\ call.result.tags =
                  (IF "tags" \in DOMAIN examples[i] THEN examples[i].tags ELSE <<>>)
            /\ call.result.similarity_score = SimilarityTo(i)

\* Two examples tie for the maximum, and a solution came back.
C2_Witness ==
    /\ IsFindSolution
    /\ call.result.kind = "BugSolution"
    /\ \E i, j \in 1..Len(examples) :
          /\ i < j
          /\ SimilarityTo(i) = call.best_similarity
          /\ SimilarityTo(j) = call.best_similarity

\* C4: find_solution never raises; it returns None when the model is not
\* loaded or the embeddings are not ready, when the query cannot be
\* encoded, and when the matched entry lacks a key of the solution.
C4_NeverRaises ==
    IsFindSolution =>
        /\ call.result.kind \in {"None", "BugSolution"}
        /\ (~model_loaded \/ example_embeddings = NoneValue)
             => call.result = NoneValue
        /\ (model_loaded /\ model[call.description] = EncodeError)
             => call.result = NoneValue
        /\ (call.best_match_idx # 0
              /\ ~(RequiredKeys \subseteq DOMAIN examples[call.best_match_idx]))
             => call.result = NoneValue

\* The match was confident and its entry lacked a key.
C4_Witness ==
    /\ Computed
    /\ call.confidence > Threshold
    /\ ~(RequiredKeys \subseteq DOMAIN examples[call.best_match_idx])
    /\ call.result = NoneValue

Similarities == -10..10

\* A fact about a function of its arguments alone is evaluated once, in the
\* initial state.
AtStart == phase = "__init__"

\* C7: the confidence of every similarity lies in [0, 1], and a returned
\* BugSolution carries a confidence in (0.5, 1].
C7_ConfidenceRange ==
    /\ AtStart =>
          \A s \in Similarities, r \in BugReports :
              _calculate_confidence(s, r) >= 0 /\ _calculate_confidence(s, r) <= One
    /\ Computed => call.confidence >= 0 /\ call.confidence <= One
    /\ (IsFindSolution /\ call.result.kind = "BugSolution") =>
          call.result.confidence > Threshold /\ call.result.confidence <= One

C7_Witness ==
    /\ IsFindSolution
    /\ call.result.kind = "BugSolution"
    /\ call.result.confidence = SigmoidTable[21]

\* C10: whenever example_embeddings is set, it holds one embedding per
\* example, in order, each the embedding of that example's description, and
\* the arg-max index addresses an example.
C10_EmbeddingsDerived ==
    example_embeddings # NoneValue =>
        /\ Len(example_embeddings.rows) = Len(examples)
        /\ \A i \in 1..Len(examples) :
              /\ "description" \in DOMAIN examples[i]
              /\ example_embeddings.rows[i] = model[examples[i].description]
        /\ Computed => call.best_match_idx \in 1..Len(examples)

\* Two examples with different embeddings, and a call that matched one.
C10_Witness ==
    /\ example_embeddings # NoneValue
    /\ Len(examples) >= 2
    /\ example_embeddings.rows[1] # example_embeddings.rows[2]
    /\ Computed
    /\ call.result.kind = "BugSolution"

IsAnalyzeBug == response.endpoint = "/analyze-bug"

\* C3 as stated: POST /analyze-bug answers 404 whenever find_solution
\* returned None to the handler.
C3_NoSolutionIs404 ==
    (IsAnalyzeBug /\ response.solution = NoneValue) => response.status = 404

\* C5: once the engine is constructed, no call of find_solution,
\* update_embeddings, get_examples or get_model_status changes the examples.
C5_ExamplesImmutable == [][phase = "ready" => examples' = examples]_vars

\* The embeddings were regenerated over a loaded knowledge base.
C5_Witness ==
    /\ phase = "ready"
    /\ call.method = "update_embeddings"
    /\ Len(examples) >= 2
    /\ example_embeddings # NoneValue

\* C6 as stated: request_count equals the number of requests received,
\* GET / and requests rejected by validation included.
C6_RequestCountIsTotal == request_count = received

\* C8: an unexpected exception inside the handler of POST /analyze-bug is
\* answered 500 and counted once in error_count; a request answered with a
\* solution leaves error_count unchanged.
C8_UnexpectedIs500 ==
    [][(received' = received + 1 /\ response'.endpoint = "/analyze-bug") =>
          /\ response'.raised \notin {"none", "HTTPException"} =>
                (response'.status = 500 /\ error_count' = error_count + 1)
          /\ response'.status = 200 =>
                (response'.solution.kind = "BugSolution"
                   /\ error_count' = error_count)]_vars

\* One request raised in the handler and one returned a solution.
C8_Witness ==
    /\ IsAnalyzeBug
    /\ response.raised = "UnicodeEncodeError"
    /\ response.status = 500
    /\ error_count = 1
    /\ analyze_bug_count = 2

\* C9: find_solution leaves model_loaded, the model, the examples and the
\* embeddings as they are, and a query repeated at any later position of a
\* sequence of calls gets the result it got before.
C9_Stateless ==
    [][call'.method = "find_solution" =>
          /\ engine' = engine
          /\ (seen.calls > 0 /\ seen.description = call'.description)
                => call'.result = seen.result]_vars

\* The last call repeated an earlier query, which had matched.
C9_Witness ==
    /\ IsFindSolution
    /\ seen.calls >= 2
    /\ seen.description = call.description
    /\ call.result.kind = "BugSolution"

\* C11: with the engine ready and no internal error, find_solution returns
\* a solution exactly when the best raw similarity is strictly above 0.5:
\* the confidence curve is strictly increasing and takes 0.5 to 0.5.
C11_RawSimilarityDecides ==
    /\ AtStart =>
          \A s, t \in Similarities, r \in BugReports :
              s < t => _calculate_confidence(s, r) < _calculate_confidence(t, r)
    /\ AtStart => \A r \in BugReports : _calculate_confidence(5, r) = Threshold
    /\ (Computed /\ RequiredKeys \subseteq DOMAIN examples[call.best_match_idx])
          => (call.result.kind = "BugSolution" <=> call.best_similarity > 5)

\* A best similarity of exactly 0.5 was turned down.
C11_Witness ==
    /\ Computed
    /\ RequiredKeys \subseteq DOMAIN examples[call.best_match_idx]
    /\ call.best_similarity = 5
    /\ call.result = NoneValue

\* The counters of main.py never run ahead of request_count.
CountersOrdered ==
    /\ 0 <= error_count /\ error_count <= request_count
    /\ 0 <= analyze_bug_count /\ analyze_bug_count <= request_count

IsMetrics == response.endpoint = "/metrics" /\ response.status = 200

\* C12 as stated: the counters are ordered, the success rate of GET
\* /metrics lies in [0, 100] and success_rate + error_rate_percent is 100.
C12_Original ==
    /\ CountersOrdered
    /\ IsMetrics =>
          /\ response.success_rate \in 0..10000
          /\ response.success_rate + response.error_rate_percent = 10000

\* C12: in every reachable state of the API 0 <= error_count <=
\* request_count and 0 <= analyze_bug_count <= request_count, so the
\* success rate GET /metrics reports lies in [0, 100]; success_rate +
\* error_rate_percent is within 0.01 of 100, each being rounded to two
\* decimals on its own.
C12_RatesBounded ==
    /\ CountersOrdered
    /\ IsMetrics =>
          /\ response.success_rate \in 0..10000
          /\ response.error_rate_percent \in 0..10000
          /\ response.success_rate + response.error_rate_percent
                \in 9999..10001

\* GET /metrics after 160 counted requests of which 23 failed and one
\* was a bug analysis: 85.62 and 14.37.
C12_Witness ==
    /\ IsMetrics
    /\ response.total = 160
    /\ response.errors = 23
    /\ response.analyze_bug >= 1
    /\ response.success_rate + response.error_rate_percent = 9999

Constructed == phase = "ready"

AllDescribed == \A i \in 1..Len(examples) : "description" \in DOMAIN examples[i]

NotPrepared == ~model_loaded \/ examples = <<>>

\* C13 as stated: construction runs the three steps in order and embeds
\* the example descriptions exactly once, unless the model failed to load
\* or the example list is empty; then nothing is embedded or written, the
\* embeddings stay None and every find_solution returns None.
C13_Original ==
    /\ Constructed =>
          built.steps = <<"_load_examples", "_load_model", "_prepare_embeddings">>
    /\ (Constructed /\ ~NotPrepared) => built.encode_calls = 1
    /\ (Constructed /\ NotPrepared) =>
          /\ built.encode_calls = 0
          /\ built.cache_writes = 0
          /\ example_embeddings = NoneValue
          /\ IsFindSolution => call.result = NoneValue

\* C13: construction runs _load_examples, _load_model, _prepare_embeddings
\* in this order and calls encode over the example descriptions at most
\* once: once when the model is loaded, the list is non-empty and every
\* entry has a description, not at all otherwise.  When the model failed
\* to load or the list is empty nothing is embedded, no cache file is
\* written, example_embeddings stays None and every later find_solution
\* returns None, update_embeddings being unable to succeed.
C13_ConstructionEmbedsOnce ==
    /\ Constructed =>
          built.steps = <<"_load_examples", "_load_model", "_prepare_embeddings">>
    /\ (Constructed /\ ~NotPrepared) =>
          built.encode_calls = IF AllDescribed THEN 1 ELSE 0
    /\ Constructed => built.cache_writes <= built.encode_calls
    /\ (Constructed /\ NotPrepared) =>
          /\ built.encode_calls = 0
          /\ built.cache_writes = 0
          /\ example_embeddings = NoneValue
          /\ IsFindSolution => call.result = NoneValue

\* A query answered None by an engine whose model loaded over an empty
\* example list.
C13_Witness ==
    /\ Constructed
    /\ model_loaded
    /\ examples = <<>>
    /\ built.encode_calls = 0
    /\ seen.calls = MaxCalls
    /\ IsFindSolution
    /\ call.result = NoneValue

AllCompleted == \A i \in Requests : ~Running(i)

\* C14: however concurrently arriving requests interleave, once every
\* handler that was invoked has completed, request_count is the number of
\* health_check, get_metrics and analyze_bug invocations, analyze_bug_count
\* the number of analyze_bug invocations and error_count the number of
\* invocations that entered an except clause.
C14_NoLostUpdate ==
    AllCompleted =>
        /\ request_count =
              ledger.health_check + ledger.get_metrics + ledger.analyze_bug
        /\ analyze_bug_count = ledger.analyze_bug
        /\ error_count = ledger.excepted

\* Every request answered, after requests had been in the server together,
\* a bug analysis and a failure among them.
C14_Witness ==
    /\ \A i \in Requests : inflight[i].pc = "done"
    /\ ledger.overlapped
    /\ ledger.analyze_bug >= 1
    /\ ledger.excepted >= 1
    /\ request_count = MaxInflight

\* What a caller can tell of a find_solution call: the result with its
\* confidence and similarity, or None.
Outcome(c) ==
    [result |-> c.result, confidence |-> c.confidence,
     best_match_idx |-> c.best_match_idx, best_similarity |-> c.best_similarity,
     threw |-> c.threw]

\* C15: the outcome of find_solution depends on the description and the
\* engine state alone: any bug report with the description of the last
\* call, whatever its title, code snippet and language, gets the same
\* result from the same engine state.
C15_DescriptionDecides ==
    IsFindSolution =>
        \A bug_report \in BugReports :
            bug_report.description = call.description
                => Outcome(find_solution(bug_report)) = Outcome(call)

\* A call answered with a solution, the same one a report of that
\* description carrying a code snippet gets.
C15_Witness ==
    /\ IsFindSolution
    /\ call.result.kind = "BugSolution"
    /\ call.confidence > Threshold
    /\ \E bug_report \in BugReports :
          /\ bug_report.description = call.description
          /\ bug_report.code_snippet # "None"
          /\ find_solution(bug_report).result = call.result
====
